---- MODULE Spec2Model ----
(***************************************************************************)
(* A model of the weather-forecast agent: the station matcher, the BMD     *)
(* table scraper with its built-in fallback stations, the weather MCP tool *)
(* and the HTTP agent that drives the tools.                               *)
(*                                                                         *)
(* Units.  Latitudes and longitudes are integers in 1e-4 degree.  Numbers  *)
(* read from table cells are integers in 1e-2 of the cell's unit.  Values  *)
(* of a DayForecast are in tenths (the code rounds them to one decimal),   *)
(* probabilities in hundredths.                                            *)
(***************************************************************************)
EXTENDS Integers, Sequences, FiniteSets, TLC

VARIABLES
    op,          \* the library operation last invoked ("none" before any)
    args,        \* its arguments
    ret,         \* its return value
    fetches,     \* day counts of the HTTP GETs the operation issued, in order
    agent,       \* main.py: the global agent, "None" or "WeatherAgent"
    initialized, \* WeatherAgent.initialized
    sessions,    \* MCPClientManager.sessions (the keys)
    lifecycle,   \* position of the application's startup and shutdown
    pc,          \* position of the /query handler
    request,     \* the QueryRequest being handled
    intent,      \* the WeatherIntent of the request
    locals,      \* the locals of WeatherAgent.process_query set so far
    response     \* the HTTP response of the request

vars == <<op, args, ret, fetches, agent, initialized, sessions, lifecycle, pc,
          request, intent, locals, response>>

libVars == <<op, args, ret, fetches>>
agentVars == <<agent, initialized, sessions, lifecycle, pc, request, intent,
               locals, response>>

\* Python's None.
None == [None |-> TRUE]

Range(s) == {s[i] : i \in 1..Len(s)}

Max(a, b) == IF a >= b THEN a ELSE b
Min(a, b) == IF a <= b THEN a ELSE b
Abs(a) == IF a < 0 THEN 0 - a ELSE a

\* process_query's max(1, min(7, intent.forecast_days)).
ClampDays(d) == Max(1, Min(7, d))

(***************************************************************************)
(* Bounds of the model.                                                    *)
(***************************************************************************)
MaxStations == 3
MaxRows == 2
MaxDayInput == 10
MaxExplainDays == 2

\* Sequences over S of length 0..n.
SeqsUpTo(S, n) == UNION {[1..k -> S] : k \in 0..n}

\* The permutations of 1..n, as functions.
Perms(n) == {f \in [1..n -> 1..n] : \A i, j \in 1..n : i # j => f[i] # f[j]}

\* s reordered by the permutation p of its indices.
Permuted(s, p) == [i \in 1..Len(s) |-> s[p[i]]]

(***************************************************************************)
(* Exact squared distances.  A difference of two coordinates is below      *)
(* 3.6e6, so its square does not fit TLC's 32-bit integers: a squared      *)
(* distance is kept as hi * 1e8 + lo.  math.sqrt is monotonic, so the      *)
(* code's comparison of distances is the comparison of their squares (up   *)
(* to the rounding of doubles, which the model does not have).             *)
(***************************************************************************)
WideBase == 100 * 100

WideSq(d) ==
    LET a == Abs(d)
        h == a \div WideBase
        l == a % WideBase
        e == 2 * h * l
        lo == (e % WideBase) * WideBase + l * l
    IN  [inf |-> FALSE,
         hi |-> h * h + (e \div WideBase) + (lo \div (WideBase * WideBase)),
         lo |-> lo % (WideBase * WideBase)]

WideAdd(x, y) ==
    LET lo == x.lo + y.lo
    IN  [inf |-> FALSE,
         hi |-> x.hi + y.hi + (lo \div (WideBase * WideBase)),
         lo |-> lo % (WideBase * WideBase)]

\* float('inf')
Inf == [inf |-> TRUE, hi |-> 0, lo |-> 0]

\* x < y on distances
WideLess(x, y) ==
    /\ ~x.inf
    /\ \/ y.inf
       \/ x.hi < y.hi
       \/ (x.hi = y.hi /\ x.lo < y.lo)

(***************************************************************************)
(* get_closest_station                                                     *)
(***************************************************************************)

\* station["latitude"], station["longitude"] raise KeyError when the key is
\* missing (a None value raises TypeError and takes the same branch).
HasCoordinates(station) == {"latitude", "longitude"} \subseteq DOMAIN station

\* math.sqrt((station.latitude - lat)**2 + (station.longitude - lon)**2),
\* squared.
Dist2(station, lat, lon) ==
    WideAdd(WideSq(station.latitude - lat), WideSq(station.longitude - lon))

\* A plausible slip: the running minimum is not updated.
ClosestStep_KeepsMinDist(acc, station, lat, lon) ==
    IF ~HasCoordinates(station)
    THEN acc
    ELSE IF WideLess(Dist2(station, lat, lon), acc.min_dist)
         THEN [closest |-> station, min_dist |-> acc.min_dist]
         ELSE acc

\* A plausible slip: a candidate without coordinates is not skipped.
ClosestStep_NoSkip(acc, station, lat, lon) ==
    IF ~HasCoordinates(station)
    THEN [closest |-> station, min_dist |-> acc.min_dist]
    ELSE IF WideLess(Dist2(station, lat, lon), acc.min_dist)
         THEN [closest |-> station, min_dist |-> Dist2(station, lat, lon)]
         ELSE acc

\* A plausible slip: dist <= min_dist, a later candidate wins a tie.
ClosestStep_LastWins(acc, station, lat, lon) ==
    IF ~HasCoordinates(station)
    THEN acc
    ELSE IF ~WideLess(acc.min_dist, Dist2(station, lat, lon))
         THEN [closest |-> station, min_dist |-> Dist2(station, lat, lon)]
         ELSE acc

\* One iteration of the loop over the stations.
ClosestStep(acc, station, lat, lon) ==
    IF ~HasCoordinates(station)
    THEN acc
    ELSE IF WideLess(Dist2(station, lat, lon), acc.min_dist)
         THEN [closest |-> station, min_dist |-> Dist2(station, lat, lon)]
         ELSE acc

RECURSIVE ClosestLoop(_, _, _, _, _)
ClosestLoop(acc, stations, i, lat, lon) ==
    IF i > Len(stations)
    THEN acc
    ELSE ClosestLoop(ClosestStep(acc, stations[i], lat, lon), stations, i + 1,
                     lat, lon)

get_closest_station(lat, lon, stations) ==
    IF stations = <<>>
    THEN None
    ELSE ClosestLoop([closest |-> None, min_dist |-> Inf], stations, 1,
                     lat, lon).closest

(***************************************************************************)
(* Numbers.                                                                *)
(***************************************************************************)

\* n / d (d > 0) rounded to the nearest integer, ties to the even one: what
\* round(x, k) yields on the values of the model, which avoid the ties
\* that a double represents inexactly.
RoundDiv(n, d) ==
    LET q == n \div d
        r == n % d
    IN  IF 2 * r < d THEN q
        ELSE IF 2 * r > d THEN q + 1
        ELSE IF q % 2 = 0 THEN q ELSE q + 1

(***************************************************************************)
(* BMDWeatherScraper._generate_fallback_data                               *)
(***************************************************************************)

\* A DayForecast as the code builds it.  date: days after today.
DayForecast(date, tmin, tmax, rain, probability, humidity) ==
    [date |-> date,
     parameters |->
        [temperature |-> [min |-> tmin, max |-> tmax, unit |-> "Celsius"],
         precipitation |-> [value |-> rain, unit |-> "mm",
                            probability |-> probability],
         humidity |-> [value |-> humidity, unit |-> "percent"]]]

\* A plausible slip: range(days + 1).
LoopDays_OneMore(days) == [i \in 1..Max(0, days + 1) |-> i - 1]

\* The day indices the loops run over, in order: for i in range(days).
LoopDays(days) == [i \in 1..Max(0, days) |-> i - 1]

\* generate_forecast(lat, lon, base_temp, base_rain) for the closure's days.
\* lat, lon in 1e-4 degree; base_temp, base_rain in tenths; the
\* intermediate values in 1e-5.
generate_forecast(days, lat, lon, base_temp, base_rain) ==
    LET temp_variation == (lat - 230000) * 3
        rain_variation == (lon - 900000) * 5
        temp_min == base_temp * 10000 + temp_variation - 400000
        temp_max == base_temp * 10000 + temp_variation + 300000
        rain_val == Max(0, base_rain * 10000 + rain_variation)
        humidity == 7000000 + rain_variation
        idx == LoopDays(days)
    IN  [k \in 1..Len(idx) |->
            DayForecast(idx[k] + 1,
                        RoundDiv(temp_min, 10000),
                        RoundDiv(temp_max, 10000),
                        RoundDiv(rain_val, 10000),
                        Min(100, RoundDiv(rain_val, 20000)),
                        RoundDiv(humidity, 10000))]

FallbackStation(days, name, lat, lon, base_temp, base_rain) ==
    [name |-> name, latitude |-> lat, longitude |-> lon,
     forecast |-> generate_forecast(days, lat, lon, base_temp, base_rain)]

_generate_fallback_data(days) ==
    [stations |->
        << FallbackStation(days, "Dhaka", 237104, 904074, 300, 40),
           FallbackStation(days, "Chittagong", 223569, 917832, 290, 100),
           FallbackStation(days, "Sylhet", 248949, 918687, 270, 80),
           FallbackStation(days, "Rajshahi", 243745, 886042, 320, 20) >>]

(***************************************************************************)
(* Cell texts.  A cell is its text, an atomic string; what the code gets   *)
(* out of a text (its lower case, the substrings it contains, the first    *)
(* number the regular expression finds in it) is tabulated for the texts   *)
(* the model uses.                                                         *)
(***************************************************************************)

\* text.lower() of the texts that occur as headers or names.
Lower(text) ==
    CASE text = "Station" -> "station"
      [] text = "Name" -> "name"
      [] text = "Latitude" -> "latitude"
      [] text = "Longitude" -> "longitude"
      [] text = "Rainfall (mm)" -> "rainfall (mm)"
      [] text = "Max Temp" -> "max temp"
      [] text = "Min Temp" -> "min temp"
      [] text = "Humidity (%)" -> "humidity (%)"
      [] text = "Dhaka" -> "dhaka"
      [] text = "Pabna" -> "pabna"
      [] text = "Sylhet" -> "sylhet"
      [] OTHER -> text

\* kw in h, for a lower-cased header h.
Contains(h, kw) ==
    CASE h = "rainfall (mm)" -> kw = "rain"
      [] h = "max temp" -> kw \in {"max", "temp"}
      [] h = "min temp" -> kw \in {"min", "temp"}
      [] h = "humidity (%)" -> kw = "hum"
      [] OTHER -> FALSE

\* re.search(r"[-+]?\d*\.\d+|\d+", text): the texts with a match, and the
\* float of the first match in 1e-2.  The sign belongs to the first
\* alternative only: "-5" matches as "5", "-5.5" as "-5.5".
NumberIn ==
    ("23.81" :> 2381) @@ ("24.00" :> 2400) @@ ("24.89" :> 2489) @@
    ("90.41" :> 9041) @@ ("89.23" :> 8923) @@ ("91.87" :> 9187) @@
    ("0" :> 0) @@ ("7" :> 700) @@ ("12.5" :> 1250) @@ ("36.2" :> 3620) @@
    ("33.4" :> 3340) @@ ("25.1" :> 2510) @@ ("21.3" :> 2130) @@
    ("80" :> 8000) @@ ("65" :> 6500) @@
    ("-5" :> 500) @@ ("-5.5" :> (0 - 550))

HasNumber(text) == text \in DOMAIN NumberIn

(***************************************************************************)
(* BMDWeatherScraper.scrape_forecast                                       *)
(*                                                                         *)
(* The upstream answer to the GET is a record: kind "timeout",             *)
(* "connection_error" or "http_error" (raise_for_status), or kind "ok"     *)
(* with the document's tables; a table is the sequence of its rows (tr),   *)
(* a row the sequence of its cell texts.                                   *)
(***************************************************************************)

\* The last 0-based index i with pred(headers_text[i]), or -1: the loop of
\* lines 44-48 for one of the four indices.
RECURSIVE LastIndexOf(_, _, _, _)
LastIndexOf(headers_text, kws, i, found) ==
    IF i >= Len(headers_text)
    THEN found
    ELSE LastIndexOf(headers_text, kws, i + 1,
                     IF \A kw \in kws : Contains(headers_text[i + 1], kw)
                     THEN i ELSE found)

HeaderIndices(header_row) ==
    LET headers_text == [i \in 1..Len(header_row) |-> Lower(header_row[i])]
    IN  [rain |-> LastIndexOf(headers_text, {"rain"}, 0, 0 - 1),
         tmax |-> LastIndexOf(headers_text, {"max", "temp"}, 0, 0 - 1),
         tmin |-> LastIndexOf(headers_text, {"min", "temp"}, 0, 0 - 1),
         hum |-> LastIndexOf(headers_text, {"hum"}, 0, 0 - 1)]

\* get_val(idx, default): the cell's first number, else the default.
get_val(cols, idx, default) ==
    IF idx # 0 - 1 /\ idx < Len(cols)
    THEN IF HasNumber(cols[idx + 1]) THEN NumberIn[cols[idx + 1]] ELSE default
    ELSE default

\* Lines 67-71: latitude and longitude from columns 1 and 2, both replaced
\* by the default when either has no number (IndexError in the try).
RowLatLon(cols) ==
    IF Len(cols) >= 3 /\ HasNumber(cols[2]) /\ HasNumber(cols[3])
    THEN [lat |-> NumberIn[cols[2]] * 100, lon |-> NumberIn[cols[3]] * 100]
    ELSE [lat |-> 238000, lon |-> 904000]

\* A plausible slip: the probability scaled from the amount, min(1, mm/10).
StationForecast_ScaledProbability(days, rain_val, tmax_val, tmin_val, hum_val) ==
    LET idx == LoopDays(days)
    IN  [k \in 1..Len(idx) |->
            LET day_i == idx[k]
                var == (day_i % 2) * 50
            IN  DayForecast(day_i + 1,
                            RoundDiv(tmin_val - var, 10),
                            RoundDiv(tmax_val + var, 10),
                            RoundDiv(rain_val, 10 * Max(1, days)),
                            Max(0, Min(100, RoundDiv(rain_val,
                                                     10 * Max(1, days)))),
                            RoundDiv(hum_val, 10))]

\* Lines 91-122: the station's forecast from the row's four values (1e-2).
StationForecast(days, rain_val, tmax_val, tmin_val, hum_val) ==
    LET idx == LoopDays(days)
    IN  [k \in 1..Len(idx) |->
            LET day_i == idx[k]
                var == (day_i % 2) * 50
            IN  DayForecast(day_i + 1,
                            RoundDiv(tmin_val - var, 10),
                            RoundDiv(tmax_val + var, 10),
                            RoundDiv(rain_val, 10 * Max(1, days)),
                            IF rain_val > 0 THEN 50 ELSE 0,
                            RoundDiv(hum_val, 10))]

\* Lines 56-63: the rows the loop skips.
RowSkipped(cols) ==
    \/ cols = <<>>
    \/ Lower(cols[1]) \in {"station", "name"}

\* Lines 61-129: the station of one row.
RowStation(cols, ix, days) ==
    LET ll == RowLatLon(cols)
    IN  [name |-> cols[1],
         latitude |-> ll.lat,
         longitude |-> ll.lon,
         forecast |-> StationForecast(days,
                                      get_val(cols, ix.rain, 0),
                                      get_val(cols, ix.tmax, 3000),
                                      get_val(cols, ix.tmin, 2000),
                                      get_val(cols, ix.hum, 7000))]

\* A plausible slip: the first row that yields no station ends the loop.
RECURSIVE ParseRows_StopsAtBadRow(_, _, _, _)
ParseRows_StopsAtBadRow(rows, ix, days, i) ==
    IF i > Len(rows) \/ RowSkipped(rows[i])
    THEN <<>>
    ELSE <<RowStation(rows[i], ix, days)>>
         \o ParseRows_StopsAtBadRow(rows, ix, days, i + 1)

RECURSIVE ParseRows(_, _, _, _)
ParseRows(rows, ix, days, i) ==
    IF i > Len(rows)
    THEN <<>>
    ELSE IF RowSkipped(rows[i])
         THEN ParseRows(rows, ix, days, i + 1)
         ELSE <<RowStation(rows[i], ix, days)>> \o ParseRows(rows, ix, days, i + 1)

\* Lines 33-133 for the first table: its stations.
ParseTable(table, days) ==
    ParseRows(Tail(table), HeaderIndices(table[1]), days, 1)

\* Whether the call returns the built-in fallback data: the GET failed
\* (line 143), there is no table (line 30), the first table has no row at
\* all (header_row is None: AttributeError, line 143), or no row yields a
\* station (line 137).
UsesFallback(upstream, days) ==
    \/ upstream.kind # "ok"
    \/ upstream.tables = <<>>
    \/ upstream.tables[1] = <<>>
    \/ ParseTable(upstream.tables[1], days) = <<>>

\* A plausible slip: a failure yields no station instead of the fallback.
scrape_forecast_NoFallback(upstream, days) ==
    IF UsesFallback(upstream, days)
    THEN [stations |-> <<>>]
    ELSE [stations |-> ParseTable(upstream.tables[1], days)]

scrape_forecast(upstream, days) ==
    IF UsesFallback(upstream, days)
    THEN _generate_fallback_data(days)
    ELSE [stations |-> ParseTable(upstream.tables[1], days)]

(***************************************************************************)
(* retrieve_weather_forecast, and the MCP tool wrapping it                 *)
(***************************************************************************)

\* An exception raised by a function, as a value.
Raised(type, msg) == [raised |-> type, msg |-> msg]
IsRaised(v) == "raised" \in DOMAIN v

BBoxKeys == {"min_lat", "max_lat", "min_lon", "max_lon"}

\* weather_forecast.retrieve_weather_forecast; json.dumps of a dict of
\* strings and numbers is read back unchanged by the caller's json.loads,
\* so the result is kept as the dict.
fetch_forecast_logic(upstream, bbox, forecast_days) ==
    LET bmd_data == scrape_forecast(upstream, forecast_days)
        stations == bmd_data.stations
    IN  IF stations = <<>>
        THEN Raised("RuntimeError", "Failed to scrape BMD weather data")
        ELSE IF ~(BBoxKeys \subseteq DOMAIN bbox)
        THEN Raised("KeyError", "bbox")
        ELSE LET center_lat == (bbox.min_lat + bbox.max_lat) \div 2
                 center_lon == (bbox.min_lon + bbox.max_lon) \div 2
                 target_station ==
                     get_closest_station(center_lat, center_lon, stations)
             IN  IF target_station = None
                 THEN Raised("RuntimeError",
                             "No weather station found near location")
                 ELSE [location |->
                          [latitude |-> target_station.latitude,
                           longitude |-> target_station.longitude,
                           area_name |-> target_station.name,
                           source |-> "bmd_wrf_dynamic_scrape"],
                       forecast |-> target_station.forecast]

\* mcp_weather.main.retrieve_weather_forecast: any exception becomes
\* {"error": str(e)}.
retrieve_weather_forecast(upstream, bbox, forecast_days) ==
    LET r == fetch_forecast_logic(upstream, bbox, forecast_days)
    IN  IF IsRaised(r) THEN [error |-> r.msg] ELSE r

(***************************************************************************)
(* MCPClientManager.get_weather_forecast                                   *)
(***************************************************************************)

\* The text of a tool result: a JSON document, or text that is not JSON.
Json(v) == [json |-> v]
Plain(t) == [plain |-> t]

\* The weather MCP server's dispatch of retrieve_weather_forecast: the tool
\* declares bbox, forecast_days and parameters, none with a default, so a
\* call that lacks one is answered with an error text and the function is
\* not run.
WeatherToolCall(arguments, upstream) ==
    IF {"bbox", "forecast_days", "parameters"} \subseteq DOMAIN arguments
    THEN [isError |-> FALSE,
          text |-> Json(retrieve_weather_forecast(upstream, arguments.bbox,
                                                  arguments.forecast_days))]
    ELSE [isError |-> TRUE,
          text |-> Plain("Error executing tool retrieve_weather_forecast")]

\* get_weather_forecast(district_name, days, params).  has_session: whether
\* sessions holds "weather" (a KeyError otherwise, caught by the except).
get_weather_forecast(has_session, district_name, days, params, upstream) ==
    IF ~has_session
    THEN [location |-> [area_name |-> "Error"], forecast |-> <<>>]
    ELSE LET result == WeatherToolCall([district_name |-> district_name,
                                        forecast_days |-> days,
                                        parameters |-> params], upstream)
             raw_response == result.text
         IN  IF raw_response = Plain("")
             THEN [location |-> [area_name |-> "Unavailable"],
                   forecast |-> <<>>]
             ELSE IF "json" \in DOMAIN raw_response
             THEN raw_response.json
             ELSE [location |-> [area_name |-> "Error"], forecast |-> <<>>]

(***************************************************************************)
(* WeatherAgent._fallback_explanation and _generate_explanation            *)
(*                                                                         *)
(* An answer is kept as the template the f-string fills and the values it  *)
(* is filled with, so that what an answer mentions can be read off it.     *)
(***************************************************************************)

\* forecast.get("forecast") is truthy: the key is there and the list has
\* an entry.
HasForecastDays(forecast) ==
    "forecast" \in DOMAIN forecast /\ forecast.forecast # <<>>

\* Lines 213-215 raise nothing: day1 has the two fields they subscript.
HasRainAndMaxTemp(day) ==
    /\ "parameters" \in DOMAIN day
    /\ {"precipitation", "temperature"} \subseteq DOMAIN day.parameters
    /\ "value" \in DOMAIN day.parameters.precipitation
    /\ "max" \in DOMAIN day.parameters.temperature

\* A plausible slip: the threshold taken inclusively (rain <= 5).
Advice_Inclusive(is_farmer, rain) ==
    IF is_farmer
    THEN IF rain <= 50 THEN "irrigation recommended"
         ELSE "monitor fields for drainage"
    ELSE IF rain > 0 THEN "Carry an umbrella"
         ELSE "Good day for outdoor activities"

\* Lines 217-222: the recommendation; rain in tenths of a millimetre.
Advice(is_farmer, rain) ==
    IF is_farmer
    THEN IF rain < 50 THEN "irrigation recommended"
         ELSE "monitor fields for drainage"
    ELSE IF rain > 0 THEN "Carry an umbrella"
         ELSE "Good day for outdoor activities"

\* Line 213: forecast["forecast"][0].
FirstDay(days) == days[1]

_fallback_explanation(location, is_farmer, forecast) ==
    LET loc_name == IF "area_name" \in DOMAIN location
                    THEN location.area_name ELSE "Unknown Location"
    IN  IF ~HasForecastDays(forecast)
        THEN [template |-> "Weather data currently unavailable for {}. Please try again later.",
              loc_name |-> loc_name]
        ELSE LET day1 == FirstDay(forecast.forecast)
             IN  IF ~HasRainAndMaxTemp(day1)
                 THEN [template |-> "Forecast available for {}, but I couldn't generate a summary.",
                       loc_name |-> loc_name]
                 ELSE LET rain == day1.parameters.precipitation.value
                          temp_max == day1.parameters.temperature.max
                      IN  [template |->
                              IF is_farmer
                              THEN "For farmers near {}: {}mm rain expected. {}. Max temp {}C."
                              ELSE "Forecast for {}: {}mm rain. {}. Max temp {}C.",
                           loc_name |-> loc_name,
                           rain |-> rain,
                           advice |-> Advice(is_farmer, rain),
                           temp_max |-> temp_max]

\* What the text generator may do with a prompt: raise, or answer with a
\* text the code returns stripped and otherwise unread.  A text is kept as
\* what it holds: the names it mentions, whether it advises, whether it
\* cites a number.
GeneratorOutcomes(location) ==
    {[raises |-> TRUE]}
    \cup {[text |-> [template |-> "generated", mentions |-> m,
                     advises |-> a, cites_number |-> a]] :
             m \in {{}, {location.area_name}}, a \in BOOLEAN}

\* _generate_explanation(user_query, location, is_farmer, forecast), given
\* what the generator does.  The prompt subscripts the location, which the
\* geocoder always returns with its three keys.
_generate_explanation(location, is_farmer, forecast, generator) ==
    IF ~HasForecastDays(forecast)
    THEN _fallback_explanation(location, is_farmer, forecast)
    ELSE IF "raises" \in DOMAIN generator
    THEN _fallback_explanation(location, is_farmer, forecast)
    ELSE generator.text

(***************************************************************************)
(* buffer_point.create_buffer, and the MCP tool buffer_point wrapping it   *)
(*                                                                         *)
(* geod.fwd is the library's direct geodesic problem.  It is kept by what  *)
(* the ring depends on: the end point is a function of the start point,    *)
(* the distance and the azimuth reduced modulo 360 degrees (the library    *)
(* reduces the azimuth exactly, in degrees), the longitude is returned in  *)
(* [-180, 180), and a latitude beyond the poles yields no point: either    *)
(* not-a-number coordinates or an exception, depending on the library.     *)
(* The displacement itself is taken on the plane tangent at 24 degrees     *)
(* north, from a table of sines in thousandths.                            *)
(***************************************************************************)

num_points == 36

SinTable == <<0, 174, 342, 500, 643, 766, 866, 940, 985, 1000>>

\* 1000 * sin(a degrees), a a multiple of 10.
Sin1000(a) ==
    LET r == a % 360
    IN  IF r <= 90 THEN SinTable[(r \div 10) + 1]
        ELSE IF r <= 180 THEN SinTable[((180 - r) \div 10) + 1]
        ELSE IF r <= 270 THEN 0 - SinTable[((r - 180) \div 10) + 1]
        ELSE 0 - SinTable[((360 - r) \div 10) + 1]

Cos1000(a) == Sin1000(a + 90)

NormLon(lon) == ((lon + 1800000) % 3600000) - 1800000

NaN == [nan |-> TRUE]

\* geod.fwd(lons, lats, az, dist): lon_pt and lat_pt, coordinates in 1e-4
\* degree, dist in metres.  library: what it does beyond the poles.
GeodFwd(lons, lats, az, dist, library) ==
    IF lats < 0 - 900000 \/ lats > 900000
    THEN IF library = "raises"
         THEN Raised("GeodError", "Invalid latitude")
         ELSE [lon_pt |-> NaN, lat_pt |-> NaN]
    ELSE [lon_pt |-> NormLon(lons + (dist * 98 * Sin1000(az)) \div 1000000),
          lat_pt |-> lats + (dist * 90 * Cos1000(az)) \div 1000000]

\* A plausible slip: the ring is left open, range(num_points).
BoundaryIndices_Open(n) == [i \in 1..n |-> i - 1]

\* Line 24: for i in range(num_points + 1).
BoundaryIndices(n) == [i \in 1..(n + 1) |-> i - 1]

\* create_buffer(latitude, longitude, radius_km): the GeoJSON polygon, or
\* the exception geod.fwd raised.
create_buffer(latitude, longitude, radius_km, library) ==
    LET idx == BoundaryIndices(num_points)
        fwd == [k \in 1..Len(idx) |->
                  GeodFwd(longitude, latitude, idx[k] * (360 \div num_points),
                          radius_km * 1000, library)]
        boundary == [k \in 1..Len(idx) |-> <<fwd[k].lon_pt, fwd[k].lat_pt>>]
    IN  IF \E k \in 1..Len(fwd) : IsRaised(fwd[k])
        THEN fwd[1]
        ELSE [type |-> "Polygon", coordinates |-> <<boundary>>]

\* mcp_weather.main.buffer_point: any exception becomes {"error": str(e)}.
buffer_point(latitude, longitude, radius_km, library) ==
    LET geojson == create_buffer(latitude, longitude, radius_km, library)
    IN  IF IsRaised(geojson) THEN [error |-> geojson.msg] ELSE geojson

(***************************************************************************)
(* The inputs of the library operations.                                   *)
(***************************************************************************)

\* Day counts a caller may pass.
DayInputs == (0 - 1)..MaxDayInput

Point(lat, lon) == [lat |-> lat, lon |-> lon]

\* Query points: Dhaka-like (23.81, 90.41), Pabna (24.00, 89.23), Sylhet.
QueryPoints == {Point(238100, 904100), Point(240000, 892300),
                Point(248900, 918700)}

BBoxAround(p) ==
    [min_lat |-> p.lat - 1400, max_lat |-> p.lat + 1400,
     min_lon |-> p.lon - 1500, max_lon |-> p.lon + 1500]

\* The well-formed bounding boxes, and one without its longitudes.
BBoxes ==
    {BBoxAround(p) : p \in QueryPoints}
    \cup {[min_lat |-> 236700, max_lat |-> 239500]}

\* Candidate records for the matcher: stations with coordinates (two of
\* them at the same distance from the Dhaka-like point), and records that
\* lack a coordinate.
StationPool ==
    {[name |-> "Dhaka", latitude |-> 238100, longitude |-> 904100,
      forecast |-> <<>>],
     [name |-> "Tangail", latitude |-> 242100, longitude |-> 904100,
      forecast |-> <<>>],
     [name |-> "Faridpur", latitude |-> 234100, longitude |-> 904100,
      forecast |-> <<>>],
     [name |-> "Pabna", latitude |-> 240000, longitude |-> 892300,
      forecast |-> <<>>],
     [name |-> "NoLatitude", longitude |-> 904100, forecast |-> <<>>],
     [name |-> "NoLongitude", latitude |-> 238100, forecast |-> <<>>]}

\* The rows of a table by meaning: the text of each kind of column.
TableRow(name, lat, lon, rain, tmax, tmin, hum) ==
    [name |-> name, lat |-> lat, lon |-> lon, rain |-> rain, tmax |-> tmax,
     tmin |-> tmin, hum |-> hum]

\* A tr without cells.
BlankRow == [blank |-> TRUE]

RowPool ==
    {TableRow("Dhaka", "23.81", "90.41", "0", "33.4", "25.1", "80"),
     TableRow("Dhaka", "23.81", "90.41", "12.5", "33.4", "25.1", "80"),
     TableRow("Pabna", "24.00", "89.23", "7", "36.2", "21.3", "65"),
     TableRow("Pabna", "24.00", "89.23", "n/a", "36.2", "21.3", "n/a"),
     TableRow("Sylhet", "24.89", "91.87", "-5.5", "n/a", "36.2", "80"),
     TableRow("Station", "Latitude", "Longitude", "Rainfall (mm)", "Max Temp",
              "Min Temp", "Humidity (%)"),
     BlankRow}

HeaderText ==
    TableRow("Station", "Latitude", "Longitude", "Rainfall (mm)", "Max Temp",
             "Min Temp", "Humidity (%)")

WeatherKinds == {"rain", "tmax", "tmin", "hum"}

\* Column layouts: with and without coordinate columns, and without a
\* humidity column.
BaseLayouts ==
    {<<"name", "lat", "lon", "rain", "tmax", "tmin", "hum">>,
     <<"name", "rain", "tmax", "tmin", "hum">>,
     <<"name", "lat", "lon", "tmin", "tmax", "rain">>}

\* The layouts that differ from layout only in the positions of the four
\* weather columns among themselves.
WeatherReorderings(layout) ==
    LET W == {i \in 1..Len(layout) : layout[i] \in WeatherKinds}
    IN  {[i \in 1..Len(layout) |-> IF i \in W THEN layout[q[i]] ELSE layout[i]] :
            q \in {f \in [W -> W] : \A i, j \in W : i # j => f[i] # f[j]}}

RowCells(row, layout) ==
    IF row = BlankRow
    THEN <<>>
    ELSE [i \in 1..Len(layout) |-> row[layout[i]]]

\* The table (header row first) that shows rows under layout.
Table(layout, rows) ==
    <<RowCells(HeaderText, layout)>>
    \o [r \in 1..Len(rows) |-> RowCells(rows[r], layout)]

Upstreams ==
    {[kind |-> k] : k \in {"timeout", "connection_error", "http_error"}}
    \cup {[kind |-> "ok", tables |-> <<>>]}
    \cup {[kind |-> "ok", tables |-> << <<>> >>]}
    \cup {[kind |-> "ok", tables |-> <<Table(layout, rows)>>,
           layout |-> layout, rows |-> rows] :
              layout \in BaseLayouts, rows \in SeqsUpTo(RowPool, MaxRows)}

\* Forecast days handed to the explanation: dry, below, at and above the
\* irrigation threshold of 5 mm, and days that lack a field.
ExplainDayPool ==
    {DayForecast(1, 251, 334, 0, 0, 800),
     DayForecast(1, 251, 334, 30, 50, 800),
     DayForecast(1, 213, 362, 50, 50, 650),
     DayForecast(1, 213, 362, 72, 50, 650),
     [date |-> 1,
      parameters |-> [temperature |-> [min |-> 251, max |-> 334,
                                       unit |-> "Celsius"]]],
     [date |-> 1,
      parameters |-> [temperature |-> [min |-> 251, unit |-> "Celsius"],
                      precipitation |-> [value |-> 30, unit |-> "mm",
                                         probability |-> 50]]]}

\* The forecast dicts get_weather_forecast hands on: a forecast, or the
\* tool's error dict.
ExplainForecasts ==
    {[location |-> [area_name |-> "Pabna"], forecast |-> days] :
        days \in SeqsUpTo(ExplainDayPool, MaxExplainDays)}
    \cup {[error |-> "Failed to scrape BMD weather data"]}

\* The geocoder's location_data, and a location dict without a name.
GeocodedLocation ==
    [area_name |-> "Pabna", latitude |-> 240000, longitude |-> 892300]

ExplainLocations ==
    {GeocodedLocation, [latitude |-> 240000, longitude |-> 892300]}

\* Buffer requests: centers inside and outside the coordinate ranges, the
\* two radii the agent uses, and radii that are not positive.
BufferCenters ==
    QueryPoints
    \cup {Point(900000, 0), Point(238100, 1799900),
          Point(950000, 904100), Point(0 - 910000, 904100),
          Point(238100, 2000000), Point(238100, 0 - 1810000)}

BufferRadii == {0 - 5, 0, 15, 20}

ValidCenter(p) ==
    /\ p.lat >= 0 - 900000 /\ p.lat <= 900000
    /\ p.lon >= 0 - 1800000 /\ p.lon <= 1800000

\* A plausible slip: the GET is tried a second time.
FetchesOf_Retry(days) == <<days, days>>

\* The GETs one scrape_forecast(days) issues: one, for days.
FetchesOf(days) == <<days>>

(***************************************************************************)
(* The library operations, each called from rest.                          *)
(***************************************************************************)
Init ==
    /\ op = "none"
    /\ args = None
    /\ ret = None
    /\ fetches = <<>>
    /\ agent = "None"
    /\ initialized = FALSE
    /\ sessions = {}
    /\ lifecycle = "not_started"
    /\ pc = "idle"
    /\ request = None
    /\ intent = None
    /\ locals = None
    /\ response = None

CallGetClosestStation ==
    /\ op = "none"
    /\ \E p \in QueryPoints, stations \in SeqsUpTo(StationPool, MaxStations) :
          /\ args' = [lat |-> p.lat, lon |-> p.lon, stations |-> stations]
          /\ ret' = get_closest_station(p.lat, p.lon, stations)
    /\ op' = "get_closest_station"
    /\ fetches' = <<>>
    /\ UNCHANGED agentVars

CallScrapeForecast ==
    /\ op = "none"
    /\ \E upstream \in Upstreams, days \in DayInputs :
          /\ args' = [upstream |-> upstream, days |-> days]
          /\ ret' = scrape_forecast(upstream, days)
          /\ fetches' = FetchesOf(days)
    /\ op' = "scrape_forecast"
    /\ UNCHANGED agentVars

CallRetrieveWeatherForecast ==
    /\ op = "none"
    /\ \E upstream \in Upstreams, bbox \in BBoxes, days \in DayInputs :
          /\ args' = [upstream |-> upstream, bbox |-> bbox,
                      forecast_days |-> days]
          /\ ret' = retrieve_weather_forecast(upstream, bbox, days)
          /\ fetches' = FetchesOf(days)
    /\ op' = "retrieve_weather_forecast"
    /\ UNCHANGED agentVars

CallGetWeatherForecast ==
    /\ op = "none"
    /\ \E upstream \in Upstreams, has_session \in BOOLEAN,
          district \in {"Dhaka", "Sylhet"}, days \in {5} :
          /\ args' = [upstream |-> upstream, has_session |-> has_session,
                      district_name |-> district, days |-> days]
          /\ ret' = get_weather_forecast(has_session, district, days,
                       <<"temperature", "precipitation", "humidity">>,
                       upstream)
    /\ op' = "get_weather_forecast"
    /\ fetches' = <<>>
    /\ UNCHANGED agentVars

CallFallbackExplanation ==
    /\ op = "none"
    /\ \E location \in ExplainLocations, is_farmer \in BOOLEAN,
          forecast \in ExplainForecasts :
          /\ args' = [location |-> location, is_farmer |-> is_farmer,
                      forecast |-> forecast]
          /\ ret' = _fallback_explanation(location, is_farmer, forecast)
    /\ op' = "_fallback_explanation"
    /\ fetches' = <<>>
    /\ UNCHANGED agentVars

CallGenerateExplanation ==
    /\ op = "none"
    /\ \E is_farmer \in BOOLEAN, forecast \in ExplainForecasts,
          generator \in GeneratorOutcomes(GeocodedLocation) :
          /\ args' = [location |-> GeocodedLocation, is_farmer |-> is_farmer,
                      forecast |-> forecast, generator |-> generator]
          /\ ret' = _generate_explanation(GeocodedLocation, is_farmer,
                                          forecast, generator)
    /\ op' = "_generate_explanation"
    /\ fetches' = <<>>
    /\ UNCHANGED agentVars

CallBufferPoint ==
    /\ op = "none"
    /\ \E p \in BufferCenters, radius_km \in BufferRadii,
          library \in {"nan", "raises"} :
          /\ args' = [latitude |-> p.lat, longitude |-> p.lon,
                      radius_km |-> radius_km]
          /\ ret' = buffer_point(p.lat, p.lon, radius_km, library)
    /\ op' = "buffer_point"
    /\ fetches' = <<>>
    /\ UNCHANGED agentVars

Return ==
    /\ op # "none"
    /\ op' = "none"
    /\ args' = None
    /\ ret' = None
    /\ fetches' = <<>>
    /\ UNCHANGED agentVars

Next ==
    \/ CallGetClosestStation
    \/ CallScrapeForecast
    \/ CallRetrieveWeatherForecast
    \/ CallGetWeatherForecast
    \/ CallFallbackExplanation
    \/ CallGenerateExplanation
    \/ CallBufferPoint
    \/ Return

Spec == Init /\ [][Next]_vars

(***************************************************************************)
(* Claims about the library operations, checked under Spec.                *)
(***************************************************************************)

IsToolCall == op = "retrieve_weather_forecast"
IsMatcherCall == op = "get_closest_station"

\* The cases of an unusable upstream answer, stated on the answer itself:
\* the GET failed, the document has no table, or the first table has no
\* data row that names a station.
FetchFailed(upstream) == upstream.kind # "ok"

TableMissing(upstream) == upstream.kind = "ok" /\ upstream.tables = <<>>

NoUsableRow(upstream) ==
    /\ upstream.kind = "ok"
    /\ upstream.tables # <<>>
    /\ \A i \in 2..Len(upstream.tables[1]) :
          \/ upstream.tables[1][i] = <<>>
          \/ upstream.tables[1][i][1] \in {"Station", "Name"}

RetrievalFailed(upstream) ==
    FetchFailed(upstream) \/ TableMissing(upstream) \/ NoUsableRow(upstream)

FallbackNames == {"Dhaka", "Chittagong", "Sylhet", "Rajshahi"}

\* ret is the forecast of one of the built-in fallback stations for days.
IsFallbackResult(r, days) ==
    /\ DOMAIN r = {"location", "forecast"}
    /\ r.location.area_name \in FallbackNames
    /\ \E s \in Range(_generate_fallback_data(days).stations) :
          /\ r.location.area_name = s.name
          /\ r.location.latitude = s.latitude
          /\ r.location.longitude = s.longitude
          /\ r.forecast = s.forecast

\* C1: a tool call with a well-formed bounding box whose table fetch fails,
\* whose response has no table or whose table yields no usable row returns
\* the forecast of a built-in fallback station, never an error result.
C1_RetrievalFailureAbsorbed ==
    (IsToolCall /\ BBoxKeys \subseteq DOMAIN args.bbox
       /\ RetrievalFailed(args.upstream))
    => ("error" \notin DOMAIN ret
          /\ IsFallbackResult(ret, args.forecast_days))

\* C1 witness: a table with rows, none usable, answered from the fallback
\* stations with a five-day forecast.
C1_Witness ==
    /\ IsToolCall
    /\ NoUsableRow(args.upstream)
    /\ Len(args.upstream.tables[1]) = 3
    /\ args.forecast_days = 5
    /\ "forecast" \in DOMAIN ret
    /\ ret.location.area_name = "Dhaka"
    /\ Len(ret.forecast) = 5

\* The code's source label read in the vocabulary of the specification.
ResolvedSource(label) ==
    IF label = "bmd_wrf_dynamic_scrape" THEN "LIVE_TABLE" ELSE label

\* C2: the source of a resolved forecast tells how it was produced: it is
\* FALLBACK_SYNTHETIC when table retrieval failed, and LIVE_TABLE only for
\* a result taken from a live table row.
C2_SourceTellsProvenance ==
    (IsToolCall /\ "location" \in DOMAIN ret)
    => /\ RetrievalFailed(args.upstream)
            => ResolvedSource(ret.location.source) = "FALLBACK_SYNTHETIC"
       /\ ResolvedSource(ret.location.source) = "LIVE_TABLE"
            => ~RetrievalFailed(args.upstream)

\* C3: for every day count in 1..7 the forecast a tool call returns, from
\* a live row or from a fallback station, has exactly that many entries,
\* dated the next days in order; so has every station the scraper returns.
C3_ForecastLengthIsDayCount ==
    /\ (IsToolCall /\ args.forecast_days \in 1..7 /\ "forecast" \in DOMAIN ret)
       => /\ Len(ret.forecast) = ClampDays(args.forecast_days)
          /\ \A i \in 1..Len(ret.forecast) : ret.forecast[i].date = i
    /\ (op = "scrape_forecast" /\ args.days \in 1..7)
       => \A i \in 1..Len(ret.stations) :
             Len(ret.stations[i].forecast) = ClampDays(args.days)

\* C3 witness: a seven-day forecast taken from a live row.
C3_Witness ==
    /\ IsToolCall
    /\ args.forecast_days = 7
    /\ ~RetrievalFailed(args.upstream)
    /\ "forecast" \in DOMAIN ret
    /\ ret.location.area_name = "Pabna"
    /\ Len(ret.forecast) = 7

\* C4: no retrieval is made with a day count outside [1,7]: the table is
\* fetched for the clamped day count (0 as 1, 10 as 7).
C4_RetrievalDayCountClamped ==
    /\ \A i \in 1..Len(fetches) : fetches[i] \in 1..7
    /\ IsToolCall => fetches = <<ClampDays(args.forecast_days)>>

\* No data row of the table is named as the district is.
NoRowNamed(upstream, district) ==
    /\ upstream.kind = "ok"
    /\ "rows" \in DOMAIN upstream
    /\ \A i \in 1..Len(upstream.rows) :
          upstream.rows[i] # BlankRow
             => Lower(upstream.rows[i].name) # Lower(district)

\* C7: a district-name query that matches no row of the table ends in
\* NOT_FOUND with a non-empty hint.
C7_DistrictMissIsNotFound ==
    (op = "get_weather_forecast"
       /\ NoRowNamed(args.upstream, args.district_name))
    => /\ {"source", "hint"} \subseteq DOMAIN ret
       /\ ret.source = "NOT_FOUND"
       /\ ret.hint # ""

\* Exactly one candidate attains the minimum distance to the point.
UniqueMinimum(lat, lon, stations) ==
    \E i \in 1..Len(stations) :
       /\ HasCoordinates(stations[i])
       /\ \A j \in 1..Len(stations) :
             (j # i /\ HasCoordinates(stations[j]))
                => WideLess(Dist2(stations[i], lat, lon),
                            Dist2(stations[j], lat, lon))

\* C8: get_closest_station returns None for the empty list, the candidate
\* itself for a list of one station record, and the same station for every
\* reordering of the list when one candidate alone is nearest.
C8_NearestEmptySingleAndOrder ==
    IsMatcherCall
    => /\ args.stations = <<>> => ret = None
       /\ (Len(args.stations) = 1 /\ HasCoordinates(args.stations[1]))
             => ret = args.stations[1]
       /\ UniqueMinimum(args.lat, args.lon, args.stations)
             => \A p \in Perms(Len(args.stations)) :
                   get_closest_station(args.lat, args.lon,
                                       Permuted(args.stations, p)) = ret

\* C8 witness: three candidates, one alone nearest and listed last.
C8_Witness ==
    /\ IsMatcherCall
    /\ Len(args.stations) = 3
    /\ UniqueMinimum(args.lat, args.lon, args.stations)
    /\ \A i \in 1..3 : HasCoordinates(args.stations[i])
    /\ ret = args.stations[3]
    /\ ret # args.stations[1]

C10_ColumnOrderIrrelevant ==
    (op = "scrape_forecast" /\ "layout" \in DOMAIN args.upstream)
    => \A layout \in WeatherReorderings(args.upstream.layout) :
          scrape_forecast([kind |-> "ok",
                           tables |-> <<Table(layout, args.upstream.rows)>>],
                          args.days) = ret

\* The ranges of a DayForecast: temperatures and amounts in tenths, the
\* probability in hundredths.
DayForecastInRange(day) ==
    LET q == day.parameters
    IN  /\ q.temperature.min <= q.temperature.max
        /\ q.precipitation.value >= 0
        /\ q.precipitation.probability \in 0..100
        /\ q.humidity.value >= 0
        /\ q.humidity.value <= 1000

\* C11: every DayForecast of every station the scraper returns, parsed
\* from a table row or generated as fallback, and of every forecast the
\* tool returns, has min <= max, a rainfall amount >= 0, a probability in
\* [0,1] and a humidity in [0,100].
C11_DayForecastInRange ==
    /\ op = "scrape_forecast"
          => \A s \in Range(ret.stations) :
                \A day \in Range(s.forecast) : DayForecastInRange(day)
    /\ (IsToolCall /\ "forecast" \in DOMAIN ret)
          => \A day \in Range(ret.forecast) : DayForecastInRange(day)

IsFallbackExplanation == op = "_fallback_explanation"

\* C12: on a forecast whose first day has its rainfall and maximum
\* temperature, _fallback_explanation recommends irrigation exactly when
\* is_farmer and day-1 rain < 5 mm, drainage monitoring for a farmer
\* otherwise, an umbrella exactly when not is_farmer and day-1 rain > 0,
\* outdoor activities otherwise; and the answer is the one it gives for
\* the first day alone, whatever the later days hold.
C12_AdviceFromDayOneOnly ==
    (IsFallbackExplanation /\ HasForecastDays(args.forecast))
    => /\ ret = _fallback_explanation(
                   args.location, args.is_farmer,
                   [args.forecast EXCEPT
                      !.forecast = <<args.forecast.forecast[1]>>])
       /\ HasRainAndMaxTemp(args.forecast.forecast[1])
          => LET rain == args.forecast.forecast[1].parameters.precipitation.value
             IN  /\ ret.rain = rain
                 /\ ret.advice
                      \in {"irrigation recommended",
                           "monitor fields for drainage", "Carry an umbrella",
                           "Good day for outdoor activities"}
                 /\ ret.advice = "irrigation recommended"
                       <=> (args.is_farmer /\ rain < 50)
                 /\ ret.advice = "monitor fields for drainage"
                       <=> (args.is_farmer /\ rain >= 50)
                 /\ ret.advice = "Carry an umbrella"
                       <=> (~args.is_farmer /\ rain > 0)
                 /\ ret.advice = "Good day for outdoor activities"
                       <=> (~args.is_farmer /\ rain <= 0)

\* C12 witness: a farmer's forecast with 5.0 mm on day 1 (the threshold
\* itself) and a dry day 2 is answered with drainage monitoring.
C12_Witness ==
    /\ IsFallbackExplanation
    /\ args.is_farmer
    /\ HasForecastDays(args.forecast)
    /\ Len(args.forecast.forecast) = 2
    /\ HasRainAndMaxTemp(args.forecast.forecast[1])
    /\ args.forecast.forecast[1].parameters.precipitation.value = 50
    /\ args.forecast.forecast[2] = DayForecast(1, 251, 334, 0, 0, 800)
    /\ ret.advice = "monitor fields for drainage"

\* The minimum content of an answer for a location: it names the
\* location, holds a recommendation and cites a number.
MentionsLocation(answer, location) ==
    IF answer.template = "generated"
    THEN location.area_name \in answer.mentions
    ELSE answer.loc_name = location.area_name

GivesAdvice(answer) ==
    IF answer.template = "generated"
    THEN answer.advises
    ELSE "advice" \in DOMAIN answer

CitesNumber(answer) ==
    IF answer.template = "generated"
    THEN answer.cites_number
    ELSE {"rain", "temp_max"} \cap DOMAIN answer # {}

\* C13: every answer of the explanation step, generated or fallback,
\* mentions the location, gives advice and cites a numeric value, whatever
\* the generator does and whatever the forecast holds.
C13_AnswerHasMinimumContent ==
    op = "_generate_explanation"
    => /\ MentionsLocation(ret, args.location)
       /\ GivesAdvice(ret)
       /\ CitesNumber(ret)

IsBufferCall == op = "buffer_point"

\* C14: for every radius > 0 and every center within the coordinate
\* ranges the buffer is a polygon whose ring has num_points + 1 = 37
\* vertices, the last identical to the first.
C14_RingClosedWithVertexCount ==
    (IsBufferCall /\ args.radius_km > 0
       /\ ValidCenter(Point(args.latitude, args.longitude)))
    => /\ DOMAIN ret = {"type", "coordinates"}
       /\ Len(ret.coordinates) = 1
       /\ Len(ret.coordinates[1]) = num_points + 1
       /\ Len(ret.coordinates[1]) = 37
       /\ ret.coordinates[1][Len(ret.coordinates[1])] = ret.coordinates[1][1]

\* C14 witness: a 15 km buffer around Pabna, a ring of 37 vertices that
\* goes round the center.
C14_Witness ==
    /\ IsBufferCall
    /\ args.radius_km = 15
    /\ args.latitude = 240000 /\ args.longitude = 892300
    /\ "coordinates" \in DOMAIN ret
    /\ Len(ret.coordinates[1]) = 37
    /\ ret.coordinates[1][1] # ret.coordinates[1][19]
    /\ ret.coordinates[1][37] = ret.coordinates[1][1]

\* C15: a buffer request with a radius <= 0 or with a center outside the
\* coordinate ranges is answered with an error and with no polygon.
C15_InvalidBufferRequestRejected ==
    (IsBufferCall
       /\ (args.radius_km <= 0
             \/ ~ValidCenter(Point(args.latitude, args.longitude))))
    => /\ "error" \in DOMAIN ret
       /\ "coordinates" \notin DOMAIN ret

\* stations[i] is the first of the located candidates nearest to the point.
IsFirstNearest(i, lat, lon, stations) ==
    /\ HasCoordinates(stations[i])
    /\ \A j \in 1..Len(stations) :
          HasCoordinates(stations[j])
             => /\ ~WideLess(Dist2(stations[j], lat, lon),
                             Dist2(stations[i], lat, lon))
                /\ j < i => WideLess(Dist2(stations[i], lat, lon),
                                     Dist2(stations[j], lat, lon))

\* C16: the station get_closest_station returns is at minimal distance
\* from the point among the candidates, and is the first such candidate
\* in input order; the tool answers with the name and forecast of the
\* first nearest row of the live table, so with the row at distance 0
\* from the center of the bounding box when there is one.
C16_FirstNearestIsMatched ==
    /\ IsMatcherCall
          => \A i \in 1..Len(args.stations) :
                IsFirstNearest(i, args.lat, args.lon, args.stations)
                   => ret = args.stations[i]
    /\ (IsToolCall /\ BBoxKeys \subseteq DOMAIN args.bbox
          /\ ~UsesFallback(args.upstream, args.forecast_days))
          => LET stations == ParseTable(args.upstream.tables[1],
                                        args.forecast_days)
                 lat == (args.bbox.min_lat + args.bbox.max_lat) \div 2
                 lon == (args.bbox.min_lon + args.bbox.max_lon) \div 2
             IN  \A i \in 1..Len(stations) :
                    /\ IsFirstNearest(i, lat, lon, stations)
                          => /\ ret.location.area_name = stations[i].name
                             /\ ret.forecast = stations[i].forecast
                    /\ (stations[i].latitude = lat
                          /\ stations[i].longitude = lon)
                          => /\ ret.location.latitude = lat
                             /\ ret.location.longitude = lon
                             /\ \E j \in 1..i :
                                   /\ stations[j].latitude = lat
                                   /\ stations[j].longitude = lon
                                   /\ ret.location.area_name = stations[j].name

\* C16 witness: two candidates at the same distance from the point, the
\* first one returned.
C16_Witness ==
    /\ IsMatcherCall
    /\ Len(args.stations) = 2
    /\ HasCoordinates(args.stations[1]) /\ HasCoordinates(args.stations[2])
    /\ args.stations[1] # args.stations[2]
    /\ Dist2(args.stations[1], args.lat, args.lon)
          = Dist2(args.stations[2], args.lat, args.lon)
    /\ ret = args.stations[1]

IsScrapeOfTable == op = "scrape_forecast" /\ "rows" \in DOMAIN args.upstream

\* A data row: a row with cells that does not repeat the header.
IsDataRow(row) ==
    row # BlankRow /\ Lower(row.name) \notin {"station", "name"}

\* A data row one of whose weather cells under the layout holds no number.
HasNumberlessWeatherCell(row, layout) ==
    /\ IsDataRow(row)
    /\ \E k \in Range(layout) \cap WeatherKinds : ~HasNumber(row[k])

\* The table's upstream answer with other rows.
WithRows(upstream, rows) ==
    [kind |-> "ok", tables |-> <<Table(upstream.layout, rows)>>,
     layout |-> upstream.layout, rows |-> rows]

\* C17: a data row with a weather cell that holds no number contributes no
\* station record: the stations are those of the table without such rows.
C17_NumberlessRowSkipped ==
    IsScrapeOfTable
    => LET Kept(row) == ~HasNumberlessWeatherCell(row, args.upstream.layout)
       IN  ret = scrape_forecast(
                    WithRows(args.upstream,
                             SelectSeq(args.upstream.rows, Kept)),
                    args.days)

\* C18: the stations parsed from a table are, in table order, exactly one
\* record per data row, each the record the row yields alone, wherever the
\* rows without cells and the repeated header rows stand.
C18_BadRowsDoNotAbort ==
    (IsScrapeOfTable /\ \E r \in Range(args.upstream.rows) : IsDataRow(r))
    => LET data_rows == SelectSeq(args.upstream.rows, IsDataRow)
       IN  /\ Len(ret.stations) = Len(data_rows)
           /\ \A i \in 1..Len(data_rows) :
                 /\ ret.stations[i].name = data_rows[i].name
                 /\ <<ret.stations[i]>>
                       = scrape_forecast(WithRows(args.upstream,
                                                  <<data_rows[i]>>),
                                         args.days).stations

\* C18 witness: a row without cells before a data row; the data row is
\* parsed.
C18_Witness ==
    /\ IsScrapeOfTable
    /\ args.days = 3
    /\ Len(args.upstream.rows) = 2
    /\ args.upstream.rows[1] = BlankRow
    /\ IsDataRow(args.upstream.rows[2])
    /\ Len(ret.stations) = 1
    /\ ret.stations[1].name = "Pabna"
    /\ Len(ret.stations[1].forecast) = 3

\* The number get_val reads in a row's rainfall cell, in 1e-2 mm.
RowRain(row) == IF HasNumber(row.rain) THEN NumberIn[row.rain] ELSE 0

C20_SingleFetchThenFallback ==
    /\ Len(fetches) <= 1
    /\ (op = "scrape_forecast" /\ FetchFailed(args.upstream))
          => /\ Len(fetches) = 1
             /\ ret = _generate_fallback_data(args.days)
    /\ (IsToolCall /\ FetchFailed(args.upstream)
          /\ BBoxKeys \subseteq DOMAIN args.bbox)
          => /\ Len(fetches) = 1
             /\ IsFallbackResult(ret, args.forecast_days)

\* C20 witness: a tool call whose fetch timed out, answered from the
\* fallback data after the one fetch.
C20_Witness ==
    /\ IsToolCall
    /\ args.upstream.kind = "timeout"
    /\ args.forecast_days = 5
    /\ fetches = <<5>>
    /\ "forecast" \in DOMAIN ret
    /\ ret.location.area_name \in FallbackNames

(***************************************************************************)
(* The agent service: main.py, WeatherAgent, MCPClientManager.             *)
(* A handler runs without interruption between two awaits, so each action  *)
(* is the code from one await to the next.                                 *)
(***************************************************************************)

\* What the intent classifier may answer.
Intents ==
    [location : {"Dhaka", "Pabna"}, user_context : {"FARMER", "CITIZEN"},
     forecast_days : DayInputs]

\* _analyze_query's default when the classifier fails.
DefaultIntent ==
    [location |-> "Dhaka", user_context |-> "CITIZEN", forecast_days |-> 3]

HTTPException(status, detail) == [status |-> status, detail |-> detail]

\* startup_event up to the first await: the agent is created;
\* initialize raises ValueError without an API key.
StartupEvent ==
    /\ lifecycle = "not_started"
    /\ agent' = "WeatherAgent"
    /\ \E api_key \in BOOLEAN :
          lifecycle' = IF api_key THEN "start_mapbox" ELSE "startup_failed"
    /\ UNCHANGED <<initialized, sessions, pc, request, intent, locals,
                   response>>
    /\ UNCHANGED libVars

\* _start_mapbox_mcp: no token, a failed connection (caught) or a session.
StartMapboxMcp ==
    /\ lifecycle = "start_mapbox"
    /\ \E outcome \in {"no_token", "failed", "connected"} :
          sessions' = IF outcome = "connected"
                      THEN sessions \cup {"mapbox"} ELSE sessions
    /\ lifecycle' = "start_weather"
    /\ UNCHANGED <<agent, initialized, pc, request, intent, locals, response>>
    /\ UNCHANGED libVars

\* _start_weather_mcp, then initialized = True; a failure propagates and
\* startup fails.
StartWeatherMcp ==
    /\ lifecycle = "start_weather"
    /\ \E connected \in BOOLEAN :
          IF connected
          THEN /\ sessions' = sessions \cup {"weather"}
               /\ initialized' = TRUE
               /\ lifecycle' = "running"
          ELSE /\ lifecycle' = "startup_failed"
               /\ UNCHANGED <<sessions, initialized>>
    /\ UNCHANGED <<agent, pc, request, intent, locals, response>>
    /\ UNCHANGED libVars

\* shutdown_event up to the await of exit_stack.aclose(): the sessions are
\* being closed, the dict still holds them.
ShutdownEvent ==
    /\ lifecycle = "running"
    /\ lifecycle' = "closing"
    /\ UNCHANGED <<agent, initialized, sessions, pc, request, intent, locals,
                   response>>
    /\ UNCHANGED libVars

\* After the await: sessions.clear(), then initialized = False.
ShutdownDone ==
    /\ lifecycle = "closing"
    /\ sessions' = {}
    /\ initialized' = FALSE
    /\ lifecycle' = "stopped"
    /\ UNCHANGED <<agent, pc, request, intent, locals, response>>
    /\ UNCHANGED libVars

\* POST /query up to the first await.  A body without "query" is rejected
\* by the request model (422); the handler answers 503 when the agent is
\* not ready; otherwise process_query starts and awaits the classifier.
HttpQuery ==
    /\ pc = "idle"
    /\ \E well_formed \in BOOLEAN :
          /\ request' = [well_formed |-> well_formed]
          /\ IF ~well_formed
             THEN /\ response' = HTTPException(422, "Unprocessable Entity")
                  /\ pc' = "done"
             ELSE IF agent = "None" \/ ~initialized
             THEN /\ response' = HTTPException(503, "Agent not ready")
                  /\ pc' = "done"
             ELSE /\ response' = None
                  /\ pc' = "analyze"
    /\ intent' = None
    /\ locals' = None
    /\ UNCHANGED <<agent, initialized, sessions, lifecycle>>
    /\ UNCHANGED libVars

\* process_query from the classifier's answer to the geocoder's await:
\* lines 101-114 and geocode_location up to list_tools.  Without a mapbox
\* session geocode_location returns None and line 115 raises TypeError,
\* which main.py turns into a 500.
AnalyzeQuery ==
    /\ pc = "analyze"
    /\ \E answer \in Intents \cup {None} :
          LET it == IF answer = None THEN DefaultIntent ELSE answer
              is_farmer == it.user_context = "FARMER"
              base == [location_name |-> it.location,
                       is_farmer |-> is_farmer,
                       forecast_days |-> ClampDays(it.forecast_days),
                       radius_km |-> IF is_farmer THEN 15 ELSE 20]
          IN  /\ intent' = it
              /\ IF "mapbox" \in sessions
                 THEN /\ locals' = base
                      /\ pc' = "geocode"
                      /\ UNCHANGED response
                 ELSE /\ locals' = base @@ [location_data |-> None]
                      /\ pc' = "done"
                      /\ response' =
                            HTTPException(500, "'NoneType' object is not subscriptable")
    /\ UNCHANGED <<agent, initialized, sessions, lifecycle, request>>
    /\ UNCHANGED libVars

\* What the geocoder's answer makes of location_data: a feature gives the
\* dict; a tool error, no structured content, no feature or an exception
\* of the session are caught and the function returns None.
GeocodeOutcomes == {"feature", "no_feature", "no_structured_content",
                    "tool_error", "session_error"}

LocationData(outcome, query) ==
    IF outcome = "feature"
    THEN [latitude |-> 238100, longitude |-> 904100, area_name |-> query,
          district |-> query]
    ELSE None

\* process_query from the geocoder's answer to the buffer tool's await:
\* lines 114-122.  create_buffer subscripts sessions["weather"].
GeocodeLocation ==
    /\ pc = "geocode"
    /\ \E outcome \in GeocodeOutcomes :
          LET location_data == LocationData(outcome, locals.location_name)
          IN  /\ locals' = locals @@ [location_data |-> location_data]
              /\ IF location_data = None
                 THEN /\ pc' = "done"
                      /\ response' =
                            HTTPException(500, "'NoneType' object is not subscriptable")
                 ELSE IF "weather" \notin sessions
                 THEN /\ pc' = "done"
                      /\ response' = HTTPException(500, "'weather'")
                 ELSE /\ pc' = "buffer"
                      /\ UNCHANGED response
    /\ UNCHANGED <<agent, initialized, sessions, lifecycle, request, intent>>
    /\ UNCHANGED libVars

\* What create_buffer returns for the buffer tool's answer: the polygon,
\* the tool's {"error": ...}, or the default Feature for an empty content;
\* a failure of the call is an exception.
BufferOutcomes == {"polygon", "tool_error", "empty_content", "session_error"}

BufferGeojson(outcome) ==
    CASE outcome = "polygon" ->
            [type |-> "Polygon", coordinates |-> "ring"]
      [] outcome = "tool_error" -> [error |-> "buffer_point failed"]
      [] outcome = "empty_content" ->
            [type |-> "Feature", geometry |-> "empty polygon"]
      [] OTHER -> Raised("Exception", "session closed")

\* process_query from the buffer tool's answer on: lines 118-130.
\* _extract_bbox subscripts geojson["coordinates"]; with a bounding box the
\* call get_weather_forecast(bbox=..., days=..., params=...) raises
\* TypeError, the method's parameters being district_name, days and
\* params.  Every exception becomes a 500 in main.py.
CreateBuffer ==
    /\ pc = "buffer"
    /\ \E outcome \in BufferOutcomes :
          LET buffer_geojson == BufferGeojson(outcome)
          IN  /\ locals' = locals @@ [buffer_geojson |-> buffer_geojson]
              /\ response' =
                    IF IsRaised(buffer_geojson)
                    THEN HTTPException(500, buffer_geojson.msg)
                    ELSE IF "coordinates" \notin DOMAIN buffer_geojson
                    THEN HTTPException(500, "'coordinates'")
                    ELSE HTTPException(500,
                            "get_weather_forecast() got an unexpected keyword argument 'bbox'")
    /\ pc' = "done"
    /\ UNCHANGED <<agent, initialized, sessions, lifecycle, request, intent>>
    /\ UNCHANGED libVars

\* GET /health: the handler has no await.  It answers 503 when the agent
\* is not ready and otherwise names both servers, whatever sessions holds.
HealthCheck ==
    /\ pc = "idle"
    /\ request' = [well_formed |-> TRUE, health |-> TRUE]
    /\ response' =
          IF agent = "None" \/ ~initialized
          THEN HTTPException(503, "Agent not ready")
          ELSE [status |-> 200,
                body |-> [status |-> "healthy",
                          mcp_servers |-> <<"mapbox", "weather">>]]
    /\ pc' = "done"
    /\ intent' = None
    /\ locals' = None
    /\ UNCHANGED <<agent, initialized, sessions, lifecycle>>
    /\ UNCHANGED libVars

\* The response is sent; the next request may come.
HttpDone ==
    /\ pc = "done"
    /\ pc' = "idle"
    /\ request' = None
    /\ intent' = None
    /\ locals' = None
    /\ response' = None
    /\ UNCHANGED <<agent, initialized, sessions, lifecycle>>
    /\ UNCHANGED libVars

NextAgent ==
    \/ StartupEvent
    \/ StartMapboxMcp
    \/ StartWeatherMcp
    \/ ShutdownEvent
    \/ ShutdownDone
    \/ HttpQuery
    \/ HealthCheck
    \/ AnalyzeQuery
    \/ GeocodeLocation
    \/ CreateBuffer
    \/ HttpDone

SpecAgent == Init /\ [][NextAgent]_vars

(***************************************************************************)
(* Claims about the agent service, checked under SpecAgent.                *)
(***************************************************************************)

\* The query was taken up by process_query (the agent was ready).
Accepted == pc = "done" /\ locals # None

\* A collaborator failed during the query: the geocoder gave no location,
\* or the buffer tool gave no polygon.
CollaboratorFailed ==
    /\ Accepted
    /\ \/ ("location_data" \in DOMAIN locals /\ locals.location_data = None)
       \/ ("buffer_geojson" \in DOMAIN locals
             /\ "coordinates" \notin DOMAIN locals.buffer_geojson)

\* C5: a query during which an external collaborator fails does not end in
\* a hard failure; only a malformed request does.
C5_CollaboratorFailureAbsorbed ==
    /\ CollaboratorFailed => response.status < 500
    /\ (pc = "done" /\ response.status = 500) => ~request.well_formed

\* C6: every query accepted while the agent is ready is answered with a
\* success response holding answer, buffer and forecast.
C6_AcceptedQuerySucceeds ==
    Accepted
    => /\ "status" \notin DOMAIN response \/ response.status = 200
       /\ {"answer", "buffer", "forecast"} \subseteq DOMAIN response

\* process_query is running: the query was accepted and uses the sessions.
QueryRunning == pc \in {"analyze", "geocode", "buffer"}

\* Startup of both tool servers has completed and shutdown has not begun.
Serving == lifecycle = "running" /\ {"mapbox", "weather"} \subseteq sessions

\* C21: at every step, a query that is running has both sessions, started
\* and not being closed; and a well-formed query or a health check that
\* arrives while the service is not in that condition is answered 503.
C21_QueriesOnlyWhileServing ==
    [][/\ QueryRunning' => Serving'
       /\ (pc = "idle" /\ pc' # "idle" /\ request'.well_formed /\ ~Serving)
             => response' = HTTPException(503, "Agent not ready")]_vars

====
